---- MODULE Spec2Model ----
(***************************************************************************)
(* Model of the desktop-entry launcher index in src/src/main.rs:           *)
(* the directory scan (get_desktop_entry), the live scan over the five     *)
(* application directories and the cache filter (get_matches), the cache   *)
(* file (has_cache, get_cache, get_cache_entries) and its rewrite          *)
(* (update_desktop_cache).                                                 *)
(*                                                                         *)
(* Strings are sequences of ASCII codes, so that to_lowercase, contains    *)
(* and the byte-wise String ordering are computed, not assumed.            *)
(* Option<String> is either a string or None.                              *)
(***************************************************************************)
EXTENDS Integers, Sequences, FiniteSets, TLC

VARIABLES
    dirs,     \* the five source directories: [ok: read_dir succeeded, files: the entries]
    cache,    \* the file at CACHE_PATH: [exists, content]
    upd,      \* the invocation running update_desktop_cache: [pc, buf]
    last      \* the latest finished search invocation: its inputs and what it did

vars == <<dirs, cache, upd, last>>

----------------------------------------------------------------------------
(* Bounds of the model *)

\* files over all source directories
MaxFiles == 2
\* the limits 0..MaxLimit stand for the usize values get_matches accepts
\* besides the one find_desktop_file passes
MaxLimit == 1

(* Program constants *)

\* update_desktop_cache: get_matches("", 1000, false)
RebuildLimit == 1000
\* find_desktop_file: get_matches(app_name, 10, true)
SearchLimit == 10

----------------------------------------------------------------------------
(* Strings *)

None == <<0>>

\* the strings of the model, as ASCII codes
StrAb == <<65, 98>>
StrB == <<66>>
StrA == <<65>>
Stra == <<97>>
Strb == <<98>>
Strx == <<120>>
Stry == <<121>>
StrLoupe == <<108>>
StrSlash == <<47>>
StrPathB == <<47, 98>>

\* char::to_lowercase on ASCII
LowerChar(c) == IF c >= 65 /\ c =< 90 THEN c + 32 ELSE c

\* str::to_lowercase
ToLower(s) == [i \in 1..Len(s) |-> LowerChar(s[i])]

\* str::contains(&str)
Contains(hay, needle) ==
    \E i \in 0..(Len(hay) - Len(needle)) :
        SubSeq(hay, i + 1, i + Len(needle)) = needle

\* field.to_lowercase().contains(query.to_lowercase().as_str())
Has(field, query) == Contains(ToLower(field), ToLower(query))

RECURSIVE StrLess(_, _)
\* a.cmp(&b) == Ordering::Less for String: byte-wise lexicographic
StrLess(a, b) ==
    IF a = <<>> THEN b # <<>>
    ELSE IF b = <<>> THEN FALSE
    ELSE IF a[1] < b[1] THEN TRUE
    ELSE IF a[1] > b[1] THEN FALSE
    ELSE StrLess(Tail(a), Tail(b))

----------------------------------------------------------------------------
(* Directory entries *)

Dirs == 1..5
UsrShare == 1
UsrLocalShare == 2
HomeLocal == 3
Desktop == 4
Flatpak == 5

\* One item a ReadDir iterator yields: an Err, or a file with the fields
\* DesktopEntry::read finds in it.
Item(kind, desktop, readable, name, generic, comment, exec, icon) ==
    [kind |-> kind, desktop |-> desktop, readable |-> readable, name |-> name,
     generic_name |-> generic, comment |-> comment, exec |-> exec, icon |-> icon]

AppAbX == Item("file", TRUE, TRUE, StrAb, None, None, Strx, Stra)
AppAbY == Item("file", TRUE, TRUE, StrAb, None, None, Stry, None)
AppBGen == Item("file", TRUE, TRUE, StrB, Strb, Stra, None, None)
AppBCom == Item("file", TRUE, TRUE, StrB, None, Stra, Strx, StrPathB)
GenericOnly == Item("file", TRUE, TRUE, None, Stra, None, Strx, None)
CommentOnly == Item("file", TRUE, TRUE, None, None, Stra, Strx, None)
NoFields == Item("file", TRUE, TRUE, None, None, None, Strx, None)
\* a .desktop file File::open fails on
Unreadable == Item("file", TRUE, FALSE, None, None, None, None, None)
\* a file whose name does not end with .desktop
NotDesktop == Item("file", FALSE, TRUE, None, None, None, None, None)
\* an Err item of the ReadDir iterator
ListErr == Item("err", FALSE, FALSE, None, None, None, None, None)

\* the files that may exist, each in its directory
Placements ==
    { <<UsrShare, AppAbX>>, <<UsrShare, AppAbY>>, <<UsrShare, AppBCom>>,
      <<UsrShare, ListErr>>,
      <<UsrLocalShare, AppBGen>>, <<UsrLocalShare, Unreadable>>,
      <<HomeLocal, CommentOnly>>, <<HomeLocal, NoFields>>,
      <<Desktop, AppBCom>>,
      <<Flatpak, AppAbX>>, <<Flatpak, GenericOnly>>, <<Flatpak, NotDesktop>> }

\* the directories read_dir may fail to open
OptionalDirs == { Flatpak }

Queries == { <<>>, StrA, Strb }

Limits == (0..MaxLimit) \cup { SearchLimit }

\* the seconds SystemTime::now() may report
Times == { 0, 1 }

\* the orders in which a ReadDir iterator may yield the entries of a directory
Listings(files) ==
    { l \in [1..Cardinality(files) -> files] :
        \A i, j \in 1..Cardinality(files) : i # j => l[i] # l[j] }

----------------------------------------------------------------------------
(* Icons *)

\* paths for which PathBuf::exists() holds
ExistingPaths == { StrPathB }

\* names icon_finder::find_icon resolves at size 48
ThemedIcons == { Stra, StrLoupe }

GetIconPath(icon_name) ==
    IF icon_name \in ExistingPaths THEN icon_name
    ELSE IF icon_name \in ThemedIcons THEN StrSlash \o icon_name
    ELSE None

UnwrapOr(opt, default) == IF opt = None THEN default ELSE opt

----------------------------------------------------------------------------
(* get_desktop_entry *)

DesktopEntryBase(entry) ==
    [name |-> entry.name,
     exec |-> UnwrapOr(entry.exec, <<>>),
     generic_name |-> entry.generic_name,
     icon |-> GetIconPath(UnwrapOr(entry.icon, StrLoupe)),
     comment |-> entry.comment]

RECURSIVE ScanFrom(_, _, _, _)
\* the loop of get_desktop_entry over the rest of the directory listing;
\* panic: an unwrap() failed and the invocation died
ScanFrom(query, dir, max, matches) ==
    IF dir = <<>> \/ Len(matches) >= max
    THEN [panic |-> FALSE, matches |-> matches]
    ELSE
      LET file == Head(dir)
          rest == Tail(dir)
      IN
        IF file.kind = "err" THEN ScanFrom(query, rest, max, matches)
        ELSE IF ~file.desktop THEN ScanFrom(query, rest, max, matches)
        ELSE IF ~file.readable THEN [panic |-> TRUE, matches |-> matches]
        ELSE IF file.name # None
        THEN
          IF Has(file.name, query)
          THEN ScanFrom(query, rest, max, Append(matches, DesktopEntryBase(file)))
          ELSE ScanFrom(query, rest, max, matches)
        ELSE IF file.generic_name # None
        THEN
          IF Has(file.generic_name, query)
          THEN [panic |-> TRUE, matches |-> matches]
          ELSE ScanFrom(query, rest, max, matches)
        ELSE IF file.comment # None
        THEN
          IF Has(file.comment, query)
          THEN [panic |-> TRUE, matches |-> matches]
          ELSE ScanFrom(query, rest, max, matches)
        ELSE ScanFrom(query, rest, max, matches)

GetDesktopEntry(query, dir, max) == ScanFrom(query, dir, max, <<>>)

----------------------------------------------------------------------------
(* sort_by(|a, b| a.name.cmp(&b.name)): a stable sort *)

RECURSIVE InsertByName(_, _)
\* e placed behind every element whose name is not greater than its own
InsertByName(sorted, e) ==
    IF sorted = <<>> THEN <<e>>
    ELSE IF StrLess(e.name, Head(sorted).name) THEN <<e>> \o sorted
    ELSE <<Head(sorted)>> \o InsertByName(Tail(sorted), e)

RECURSIVE SortFrom(_, _)
SortFrom(sorted, rest) ==
    IF rest = <<>> THEN sorted
    ELSE SortFrom(InsertByName(sorted, Head(rest)), Tail(rest))

\* get_matches without its final sort
SortByName_Unsorted(matches) == matches

SortByName(matches) == SortFrom(<<>>, matches)

----------------------------------------------------------------------------
(* the cache file *)

\* serde_json::to_string(&CachedEntries)
ToJson(cached) == <<"{", cached.entries, cached.last_update, "}">>

\* serde_json::from_str succeeds
Decodes(content) ==
    /\ Len(content) = 4
    /\ content[1] = "{"
    /\ content[4] = "}"

\* serde_json::from_str::<CachedEntries>(...).unwrap()
FromJson(content) == [entries |-> content[2], last_update |-> content[3]]

HasCache == cache.exists

----------------------------------------------------------------------------
(* get_matches *)

\* the cache loop testing the name alone
CacheMatch_NameOnly(entry, query) == Has(entry.name, query)

\* the cache loop with its two else-if tests turned into independent tests
CacheMatch_AnyField(entry, query) ==
    \/ Has(entry.name, query)
    \/ entry.generic_name # None /\ Has(entry.generic_name, query)
    \/ entry.comment # None /\ Has(entry.comment, query)

\* the test the cache loop applies to one record
CacheMatch(entry, query) ==
    IF Has(entry.name, query) THEN TRUE
    ELSE IF entry.generic_name # None THEN Has(entry.generic_name, query)
    ELSE IF entry.comment # None THEN Has(entry.comment, query)
    ELSE FALSE

RECURSIVE CacheLoop_OffByOne(_, _, _, _)
\* the cache loop breaking on count > limit
CacheLoop_OffByOne(entries, query, limit, matches) ==
    IF entries = <<>> \/ Len(matches) > limit THEN matches
    ELSE IF CacheMatch(Head(entries), query)
    THEN CacheLoop_OffByOne(Tail(entries), query, limit,
                            Append(matches, Head(entries)))
    ELSE CacheLoop_OffByOne(Tail(entries), query, limit, matches)

RECURSIVE CacheLoop(_, _, _, _)
\* for entry in entries { if count >= limit { break } ... }
CacheLoop(entries, query, limit, matches) ==
    IF entries = <<>> \/ Len(matches) >= limit THEN matches
    ELSE IF CacheMatch(Head(entries), query)
    THEN CacheLoop(Tail(entries), query, limit, Append(matches, Head(entries)))
    ELSE CacheLoop(Tail(entries), query, limit, matches)

Result(path, out, scanned, src) ==
    [path |-> path, out |-> out, scanned |-> scanned, src |-> src]

\* the branch taken when use_cache && has_cache(): get_cache_entries reads
\* the file and decodes it. get_cache would first call update_desktop_cache
\* if the file were absent, but this branch is entered only after has_cache()
\* found the file, and no operation removes it.
CachePath(query, limit) ==
    IF Decodes(cache.content)
    THEN Result("cache",
                CacheLoop(FromJson(cache.content).entries, query, limit, <<>>),
                {}, FromJson(cache.content).entries)
    ELSE Result("decode_panic", <<>>, {}, <<>>)

\* the query handed to get_desktop_entry for directory d
DirQuery(d, query) == IF d = Desktop THEN <<>> ELSE query

RECURSIVE ScanDirs(_, _, _, _, _, _)
\* the five scans in source order, from directory d on; ord[d] is the order
\* in which directory d is enumerated
ScanDirs(d, query, limit, ord, matches, scanned) ==
    IF d > 5 THEN Result("live", SortByName(matches), scanned, <<>>)
    ELSE IF ~dirs[d].ok THEN ScanDirs(d + 1, query, limit, ord, matches, scanned)
    ELSE
      LET r == GetDesktopEntry(DirQuery(d, query), ord[d], limit)
      IN
        IF r.panic THEN Result("scan_panic", <<>>, scanned \cup {d}, <<>>)
        ELSE ScanDirs(d + 1, query, limit, ord, matches \o r.matches,
                      scanned \cup {d})

LiveScan(query, limit, ord) == ScanDirs(1, query, limit, ord, <<>>, {})

\* get_matches treating a cache that does not decode as no cache
GetMatches_Fallback(query, limit, use_cache, ord) ==
    IF use_cache /\ HasCache /\ Decodes(cache.content)
    THEN CachePath(query, limit)
    ELSE LiveScan(query, limit, ord)

GetMatches(query, limit, use_cache, ord) ==
    IF use_cache /\ HasCache THEN CachePath(query, limit)
    ELSE LiveScan(query, limit, ord)

----------------------------------------------------------------------------
(* State machine *)

\* the orders in which the directories get_matches scans are enumerated;
\* the cache branch enumerates none
Enumerations(use_cache) ==
    IF use_cache /\ HasCache THEN { <<<<>>, <<>>, <<>>, <<>>, <<>>>> }
    ELSE Listings(dirs[1].files) \X Listings(dirs[2].files)
           \X Listings(dirs[3].files) \X Listings(dirs[4].files)
           \X Listings(dirs[5].files)

RECURSIVE SubsetsUpTo(_, _)
\* the subsets of S with at most k elements
SubsetsUpTo(S, k) ==
    IF k = 0 THEN { {} }
    ELSE LET prev == SubsetsUpTo(S, k - 1)
         IN prev \cup { s \cup {x} : s \in prev, x \in S }

\* the directory contents with the given files in them
DirsOf(placed, missing) ==
    [d \in Dirs |-> [ok |-> d \notin missing,
                     files |-> { p[2] : p \in { q \in placed : q[1] = d } }]]

IdleUpd == [pc |-> "idle", buf |-> <<>>]

NoSearch == [q |-> <<>>, limit |-> 0, path |-> "none", out |-> <<>>,
             scanned |-> {}, src |-> <<>>]

InitDirs ==
    \E missing \in SUBSET OptionalDirs :
    \E placed \in SubsetsUpTo({ p \in Placements : p[1] \notin missing }, MaxFiles) :
        dirs = DirsOf(placed, missing)

Init ==
    /\ InitDirs
    /\ cache = [exists |-> FALSE, content |-> <<>>]
    /\ upd = IdleUpd
    /\ last = NoSearch

\* a cache file left behind with content that is no snapshot
InitCorrupt ==
    /\ InitDirs
    /\ cache = [exists |-> TRUE, content |-> <<"garbage">>]
    /\ upd = IdleUpd
    /\ last = NoSearch

\* main with a query: search -> find_desktop_file -> get_matches(q, limit, true)
Search(q, limit) ==
    /\ \E ord \in Enumerations(TRUE) :
         LET r == GetMatches(q, limit, TRUE, ord)
         IN last' = [q |-> q, limit |-> limit, path |-> r.path, out |-> r.out,
                     scanned |-> r.scanned, src |-> r.src]
    /\ UNCHANGED <<dirs, cache, upd>>

\* main with --update-cache, up to the serialized snapshot (lines 250-256)
UpdateScan ==
    /\ upd.pc \in {"idle", "aborted"}
    /\ \E ord \in Enumerations(FALSE), now \in Times :
         LET r == GetMatches(<<>>, RebuildLimit, FALSE, ord)
         IN upd' = IF r.path = "scan_panic"
                   THEN [pc |-> "aborted", buf |-> <<>>]
                   ELSE [pc |-> "scanned",
                         buf |-> ToJson([entries |-> r.out, last_update |-> now])]
    /\ UNCHANGED <<dirs, cache, last>>

\* File::create(CACHE_PATH): the file exists and is empty
UpdateCreate ==
    /\ upd.pc = "scanned"
    /\ cache' = [exists |-> TRUE, content |-> <<>>]
    /\ upd' = [upd EXCEPT !.pc = "created"]
    /\ UNCHANGED <<dirs, last>>

\* write_all: a write() that stores only part of the buffer
UpdateWritePart ==
    /\ upd.pc = "created"
    /\ cache' = [exists |-> TRUE, content |-> SubSeq(upd.buf, 1, 2)]
    /\ upd' = [upd EXCEPT !.pc = "partial"]
    /\ UNCHANGED <<dirs, last>>

\* write_all returns: the whole buffer is in the file
UpdateWrite ==
    /\ upd.pc \in {"created", "partial"}
    /\ cache' = [exists |-> TRUE, content |-> upd.buf]
    /\ upd' = IdleUpd
    /\ UNCHANGED <<dirs, last>>

Next ==
    \/ \E q \in Queries, limit \in Limits : Search(q, limit)
    \/ UpdateScan
    \/ UpdateCreate
    \/ UpdateWritePart
    \/ UpdateWrite

Spec == Init /\ [][Next]_vars

SpecCorrupt == InitCorrupt /\ [][Next]_vars

----------------------------------------------------------------------------
(* Properties *)

Elems(s) == { s[i] : i \in 1..Len(s) }

FirstN(s, n) == SubSeq(s, 1, IF n < Len(s) THEN n ELSE Len(s))

SortedByName(s) ==
    \A i, j \in 1..Len(s) : i < j => ~StrLess(s[j].name, s[i].name)

RECURSIVE IsSubsequence(_, _)
\* sub is s with some elements left out, the order kept
IsSubsequence(sub, s) ==
    IF sub = <<>> THEN TRUE
    ELSE IF s = <<>> THEN FALSE
    ELSE IF Head(sub) = Head(s) THEN IsSubsequence(Tail(sub), Tail(s))
    ELSE IsSubsequence(sub, Tail(s))

\* the first of name, generic_name, comment that is present on a record
FirstPresent(e) ==
    IF e.name # None THEN e.name
    ELSE IF e.generic_name # None THEN e.generic_name
    ELSE e.comment

\* the name contains the query, or it does not and the first present of
\* generic_name, comment does
FallThroughMatch(e, q) ==
    \/ Has(e.name, q)
    \/ e.generic_name # None /\ Has(e.generic_name, q)
    \/ e.generic_name = None /\ e.comment # None /\ Has(e.comment, q)

\* the search served from the cache was not cut short by its limit
NoCut == last.path = "cache" /\ last.limit >= Len(last.src)

\* the snapshot in the cache file decodes
WellFormed(file) == file.exists /\ Decodes(file.content)

\* a step in which a search invocation finishes
SearchStep == last' # last

(* C1, as stated: on the cache path the one field tested is the first of
   name, generic_name, comment present on the record, and a record is in the
   result exactly when that field contains the query (limit aside). *)
C1_FirstPresentOnly ==
    NoCut =>
      LET Test(e) == Has(FirstPresent(e), last.q)
      IN last.out = SelectSeq(last.src, Test)

(* C1, amended: on the cache path the name is tested first and, only when the
   name does not contain the query, the first present of generic_name,
   comment is tested; a record is in the result exactly when one of these
   two tests succeeds (limit aside), in snapshot order. *)
C1_FallThrough ==
    NoCut =>
      LET Test(e) == FallThroughMatch(e, last.q)
      IN last.out = SelectSeq(last.src, Test)

\* a record whose name does not contain the query was returned
C1_Witness ==
    /\ NoCut
    /\ \E i \in 1..Len(last.src) :
         /\ ~Has(last.src[i].name, last.q)
         /\ last.src[i] \in Elems(last.out)

(* C2: a search that finds no cache file leaves a well-formed cache file
   behind and returns the records of that snapshot that match the query. *)
C2_SearchRebuilds ==
    [][(SearchStep /\ ~cache.exists) =>
         /\ WellFormed(cache')
         /\ last'.out = CacheLoop(FromJson(cache'.content).entries,
                                  last'.q, last'.limit, <<>>)]_vars

(* C3: a search that finds a cache file whose content does not decode ends
   in the decode failure: no result, no directory scanned, the cache file
   left as it was. *)
C3_MalformedCacheIsFatal ==
    [][(SearchStep /\ cache.exists /\ ~Decodes(cache.content)) =>
         /\ last'.path = "decode_panic"
         /\ last'.out = <<>>
         /\ last'.scanned = {}
         /\ cache' = cache]_vars

\* a search met the corrupt file and failed on it
C3_Witness ==
    /\ cache = [exists |-> TRUE, content |-> <<"garbage">>]
    /\ last.path = "decode_panic"

(* C4: every record a live scan returns for query q has a name that
   contains q, whichever directory it came from. *)
C4_LiveScanFiltersEveryDir ==
    last.path = "live" =>
      \A i \in 1..Len(last.out) : Has(last.out[i].name, last.q)

(* C5: no single directory item aborts a scan: every search and every
   rebuild that scans the directories completes. *)
C5_ScanNeverAborts ==
    /\ last.path # "scan_panic"
    /\ upd.pc # "aborted"

(* C6: a search served from the cache with limit N returns at most N records,
   namely the first N matching records of the snapshot in snapshot order. *)
C6_CacheLimit ==
    last.path = "cache" =>
      LET Test(e) == FallThroughMatch(e, last.q)
      IN /\ Len(last.out) =< last.limit
         /\ last.out = FirstN(SelectSeq(last.src, Test), last.limit)

\* a positive limit cut the result short
C6_Witness ==
    /\ last.path = "cache"
    /\ last.limit > 0
    /\ Len(last.out) = last.limit
    /\ LET Test(e) == FallThroughMatch(e, last.q)
       IN Len(SelectSeq(last.src, Test)) > last.limit

\* name and generic_name present and without the query, comment with it
ShadowedComment(e, q) ==
    /\ ~Has(e.name, q)
    /\ e.generic_name # None /\ ~Has(e.generic_name, q)
    /\ e.comment # None /\ Has(e.comment, q)

\* name without the query, no generic_name, comment with the query
CommentOnlyHit(e, q) ==
    /\ ~Has(e.name, q)
    /\ e.generic_name = None
    /\ e.comment # None /\ Has(e.comment, q)

(* C7: on the cache path a record whose name and present generic_name do not
   contain the query is excluded although its comment contains it, while one
   without generic_name whose comment contains the query is included. *)
C7_PriorityExclusivity ==
    last.path = "cache" =>
      \A i \in 1..Len(last.src) :
        /\ ShadowedComment(last.src[i], last.q)
             => last.src[i] \notin Elems(last.out)
        /\ (CommentOnlyHit(last.src[i], last.q) /\ NoCut)
             => last.src[i] \in Elems(last.out)

\* one search met a record of each of the two kinds
C7_Witness ==
    /\ NoCut
    /\ \E i \in 1..Len(last.src) : ShadowedComment(last.src[i], last.q)
    /\ \E i \in 1..Len(last.src) : CommentOnlyHit(last.src[i], last.q)

(* C8: the cache file is absent or holds a complete snapshot in every state,
   those inside a rewrite included, and no search fails to decode it. *)
C8_CacheAbsentOrWellFormed ==
    /\ cache.exists => Decodes(cache.content)
    /\ last.path # "decode_panic"

(* C9: the entries a rebuild is about to write equal, record for record and
   in order, those the previous rebuild wrote over the same directories. *)
C9_RebuildIdempotent ==
    (upd.pc = "scanned" /\ WellFormed(cache)) =>
      FromJson(upd.buf).entries = FromJson(cache.content).entries

(* C10: the entries of every snapshot a rebuild builds or writes are sorted
   by name, and so is every search result: the live scan's, and the cache
   path's, which is a subsequence of the snapshot it read. *)
C10_CanonicalOrder ==
    /\ WellFormed(cache) => SortedByName(FromJson(cache.content).entries)
    /\ upd.pc \in {"scanned", "created", "partial"}
         => SortedByName(FromJson(upd.buf).entries)
    /\ last.path \in {"cache", "live"} => SortedByName(last.out)
    /\ last.path = "cache" => IsSubsequence(last.out, last.src)

\* a snapshot whose two records were scanned in descending name order, and a
\* search that returned both from the cache
C10_Witness ==
    /\ dirs[UsrShare].files = {AppBCom}
    /\ dirs[Flatpak].files = {AppAbX}
    /\ WellFormed(cache)
    /\ Len(FromJson(cache.content).entries) = 2
    /\ last.path = "cache"
    /\ Len(last.out) = 2

====
